---- MODULE Spec2Model ----
(***************************************************************************)
(* Model of api/datastore/sql/migrations/migrations.go: the package-level  *)
(* migration registry, sortAndConnectMigrations, the legacy version bridge *)
(* (checkOldMigrationTableVersionIfExists, checkOldMigration) and the two  *)
(* entry points ApplyMigrations and DownAll.                               *)
(*                                                                         *)
(* The database is the environment: the legacy single-row table            *)
(* schema_migrations, the goose version table, and for every migration     *)
(* whether its schema change is in place.  goose (GetDBVersion, Current,   *)
(* Up, Down) and database/sql are collaborators; their outcomes are        *)
(* nondeterministic where the database decides them.                       *)
(***************************************************************************)
EXTENDS Integers, Sequences, FiniteSets, TLC

\* ---------------------------------------------------------------- bounds
\* Highest migration version a Registry may hold.
MaxVersion == 4
\* Highest version the legacy row may report (may exceed the Registry).
MaxLegacy == 5

\* Number of baseline CREATE TABLE IF NOT EXISTS statements.
NumTables == 4

Versions == 1..MaxVersion

\* ---------------------------------------------------------------- errors
NilErr == [kind |-> "nil", version |-> 0]
ErrNoRows == [kind |-> "ErrNoRows", version |-> 0]
ErrNoNextVersion == [kind |-> "ErrNoNextVersion", version |-> 0]
ConnErr == [kind |-> "ConnErr", version |-> 0]
\* context.Canceled, the answer of a database call made with a cancelled ctx.
CanceledErr == [kind |-> "Canceled", version |-> 0]
MigrationError(v) == [kind |-> "MigrationError", version |-> v]

\* ---------------------------------------------------------------- helpers
RECURSIVE SeqToSet(_)
SeqToSet(s) == IF s = <<>> THEN {} ELSE {Head(s)} \cup SeqToSet(Tail(s))

Last(s) == s[Len(s)]

\* A goose.Migration as registered: Next and Previous start at -1.
NewMigration(v) == [Version |-> v, Previous |-> -1, Next |-> -1]

\* All orders in which the migrations of a set of versions can be registered.
RECURSIVE Registrations(_)
Registrations(S) ==
    IF S = {} THEN {<<>>}
    ELSE UNION {{<<NewMigration(v)>> \o r : r \in Registrations(S \ {v})} : v \in S}

\* The versions 1..g in ascending order.
RECURSIVE Ascending(_)
Ascending(g) == IF g <= 0 THEN <<>> ELSE Append(Ascending(g - 1), g)

\* ------------------------------------------------ sortAndConnectMigrations
\* sort.Sort(migrations): goose.Migrations orders by Version.
RECURSIVE InsertByVersion(_, _)
InsertByVersion(m, s) ==
    IF s = <<>> THEN <<m>>
    ELSE IF m.Version < Head(s).Version THEN <<m>> \o s
    ELSE <<Head(s)>> \o InsertByVersion(m, Tail(s))

RECURSIVE SortByVersion(_)
SortByVersion(s) ==
    IF s = <<>> THEN <<>> ELSE InsertByVersion(Head(s), SortByVersion(Tail(s)))

\* The linking loop with the assignment to migrations[i-1].Next left out.
ConnectAtNoNext(ms, i) ==
    [ms EXCEPT ![i].Previous = IF i > 1 THEN ms[i - 1].Version ELSE -1]

\* One iteration of the linking loop, for index i (1-based) of ms.
ConnectAt(ms, i) ==
    LET prev == IF i > 1 THEN ms[i - 1].Version ELSE -1
        ms1 == IF i > 1
               THEN [ms EXCEPT ![i - 1].Next = ms[i].Version]
               ELSE ms
    IN [ms1 EXCEPT ![i].Previous = prev]

RECURSIVE ConnectFrom(_, _)
ConnectFrom(ms, i) ==
    IF i > Len(ms) THEN ms ELSE ConnectFrom(ConnectAt(ms, i), i + 1)

sortAndConnectMigrations(ms) == ConnectFrom(SortByVersion(ms), 1)

\* ------------------------------------------------------ the legacy bridge
\* The row of schema_migrations as the database holds it.
LegacyRows ==
    {[present |-> FALSE, version |-> 0, dirty |-> FALSE]}
        \cup [present : {TRUE}, version : 0..MaxLegacy, dirty : BOOLEAN]

\* What QueryRowContext(...).Scan can answer for a legacy row.
ScanErrs(row) == IF row.present THEN {NilErr, ConnErr} ELSE {ErrNoRows, ConnErr}

\* checkOldMigrationTableVersionIfExists: Scan fills version and dirty only
\* when it succeeds; its error is dropped, and the named result err is never
\* assigned, so both tests of err see nil.
checkOldMigrationTableVersionIfExists(row, scanErr) ==
    LET version == IF scanErr = NilErr THEN row.version ELSE 0
        dirty == IF scanErr = NilErr THEN row.dirty ELSE FALSE
        err == NilErr
    IN IF err = ErrNoRows THEN [version |-> -1, dirty |-> FALSE, err |-> NilErr]
       ELSE IF err # NilErr THEN [version |-> -1, dirty |-> FALSE, err |-> err]
       ELSE [version |-> version, dirty |-> dirty, err |-> NilErr]

\* The Go slice expression s[current:], which panics when current > len(s).
SliceInRange(s, current) == current <= Len(s)
\* The slice taken one position early, keeping the migration at position current.
SliceFromInclusive(s, current) == SubSeq(s, current, Len(s))
SliceFrom(s, current) == SubSeq(s, current + 1, Len(s))

\* checkOldMigration with the test of dirty left out.
checkOldMigrationNoDirty(migrationsSorted, old) ==
    IF old.err # NilErr
    THEN [how |-> "ret", current |-> -1, left |-> <<>>, err |-> old.err]
    ELSE IF old.version > 0
    THEN IF SliceInRange(migrationsSorted, old.version)
         THEN [how |-> "ret", current |-> old.version,
               left |-> SliceFrom(migrationsSorted, old.version), err |-> NilErr]
         ELSE [how |-> "panic", current |-> -1, left |-> <<>>, err |-> NilErr]
    ELSE [how |-> "ret", current |-> -1, left |-> migrationsSorted, err |-> NilErr]

\* checkOldMigration, given the sorted registry and the legacy read.
\* how: "ret" returned, "fatal" log.Fatal ended the process, "panic" the
\* slice expression was out of range.
checkOldMigration(migrationsSorted, old) ==
    IF old.err # NilErr
    THEN [how |-> "ret", current |-> -1, left |-> <<>>, err |-> old.err]
    ELSE IF old.dirty
    THEN [how |-> "fatal", current |-> -1, left |-> <<>>, err |-> NilErr]
    ELSE IF old.version > 0
    THEN IF SliceInRange(migrationsSorted, old.version)
         THEN [how |-> "ret", current |-> old.version,
               left |-> SliceFrom(migrationsSorted, old.version), err |-> NilErr]
         ELSE [how |-> "panic", current |-> -1, left |-> <<>>, err |-> NilErr]
    ELSE [how |-> "ret", current |-> -1, left |-> migrationsSorted, err |-> NilErr]

\* The guard of the upgrade loop with the comparison turned round.
ShouldApplyReversed(gooseCurrent, migrateCurrent) == gooseCurrent > migrateCurrent

\* The guard of the upgrade loop testing for a difference, not for "behind".
ShouldApplyNotEqual(gooseCurrent, migrateCurrent) == gooseCurrent # migrateCurrent

\* The guard of the upgrade loop in ApplyMigrations.
ShouldApply(gooseCurrent, migrateCurrent) == gooseCurrent < migrateCurrent

\* The baseline test against 0, as in goose's own reset.
AtBaselineZero(version) == version <= 0

\* The baseline test of DownAll.
AtBaseline(version) == version <= 1

\* ------------------------------------------------------ goose collaborators
\* goose.GetDBVersion: the most recently applied row of the version table;
\* 0 with ErrNoNextVersion when there is no applied row.
GetDBVersion(table) ==
    IF table = <<>> THEN [version |-> 0, err |-> ErrNoNextVersion]
    ELSE [version |-> Last(table), err |-> NilErr]

\* goose.Migrations.Current: the index of the migration that is version v,
\* or 0 (ErrNoCurrentVersion) when there is none.
Current(ms, v) ==
    IF \E k \in 1..Len(ms) : ms[k].Version = v
    THEN CHOOSE k \in 1..Len(ms) : ms[k].Version = v
    ELSE 0

\* Migration.Up and Migration.Down record the version change with the schema
\* change.
TableAfterUp(table, v) == Append(table, v)
TableAfterDown(table, v) == SelectSeq(table, LAMBDA x : x # v)

\* ------------------------------------------------------------------ state
VARIABLES
    migrations,   \* the package-level registry (goose.Migrations)
    legacy,       \* the row of the legacy table schema_migrations
    gooseTable,   \* applied rows of the goose version table, oldest first
    applied,      \* versions whose schema change is in place
    pc,           \* position of the running entry point
    op,           \* entry point of the current or last run
    t,            \* ApplyMigrations: index of the next baseline statement
    gooseCurrent, \* ApplyMigrations: local gooseCurrent
    migrateCurrent, \* ApplyMigrations: local migrateCurrent
    left,         \* ApplyMigrations: local left
    i,            \* ApplyMigrations: index of the next migration of left
    currentVersion, \* DownAll: local currentVersion
    result,       \* how the current or last run ended
    trace,        \* database operations of the current or last run
    start         \* version state when the current or last run was called

vars == <<migrations, legacy, gooseTable, applied, pc, op, t, gooseCurrent,
          migrateCurrent, left, i, currentVersion, result, trace, start>>

locals == <<t, gooseCurrent, migrateCurrent, left, i, currentVersion>>
database == <<legacy, gooseTable, applied>>

\* One database operation of a run: what was done, for which table or version,
\* and the error it answered.
Event(ev, v, err) == [ev |-> ev, v |-> v, err |-> err]
Running == [status |-> "running", err |-> NilErr]
Returned(err) == [status |-> IF err = NilErr THEN "ok" ELSE "err", err |-> err]
Halted(how) == [status |-> how, err |-> NilErr]

\* Versions the legacy tool recorded as done.
LegacyApplied(row) == IF row.present THEN {v \in Versions : v <= row.version} ELSE {}

\* The goose version table before any run: missing, or the baseline row 0
\* followed by the versions 1..g.
InitialTables == {<<>>} \cup {<<0>> \o Ascending(g) : g \in 0..MaxVersion}

Init ==
    /\ migrations \in UNION {Registrations(S) : S \in SUBSET Versions}
    /\ legacy \in LegacyRows
    /\ gooseTable \in InitialTables
    /\ applied = (SeqToSet(gooseTable) \ {0}) \cup LegacyApplied(legacy)
    /\ pc = "idle"
    /\ op = "none"
    /\ t = 1
    /\ gooseCurrent = 0
    /\ migrateCurrent = 0
    /\ left = <<>>
    /\ i = 1
    /\ currentVersion = 0
    /\ result = [status |-> "none", err |-> NilErr]
    /\ trace = <<>>
    /\ start = [table |-> gooseTable, legacy |-> legacy, applied |-> applied,
                migrations |-> migrations,
                prevApplyOk |-> FALSE]

\* What a call of goose.GetDBVersion can answer: the version of the table, or
\* a failure of the query.
VersionReads(table) == {GetDBVersion(table), [version |-> 0, err |-> ConnErr]}

\* No database operation of the run failed; "no rows" and "no next version"
\* are answers, not failures.
NoFailure == \A k \in 1..Len(trace) : trace[k].err \in {NilErr, ErrNoRows, ErrNoNextVersion}

\* The caller has cancelled the ctx of the running ApplyMigrations.
Cancelled == \E k \in 1..Len(trace) : trace[k].ev = "cancel"

\* The database as a call finds it, and whether the run before it was an
\* ApplyMigrations that returned success with no failed database operation.
Snapshot == [table |-> gooseTable, legacy |-> legacy, applied |-> applied,
             migrations |-> migrations,
             prevApplyOk |-> (op = "apply" /\ result.status = "ok" /\ NoFailure)]

\* The run returns err (nil for success) to its caller.
Return(err) ==
    /\ pc' = "idle"
    /\ result' = Returned(err)
    /\ t' = 1
    /\ gooseCurrent' = 0
    /\ migrateCurrent' = 0
    /\ left' = <<>>
    /\ i' = 1
    /\ currentVersion' = 0

\* The process ends inside the run: log.Fatal or a runtime panic.
Halt(how) ==
    /\ pc' = "exited"
    /\ result' = Halted(how)
    /\ t' = 1
    /\ gooseCurrent' = 0
    /\ migrateCurrent' = 0
    /\ left' = <<>>
    /\ i' = 1
    /\ currentVersion' = 0

\* ---------------------------------------------------------- ApplyMigrations
\* The caller invokes ApplyMigrations.
CallApply ==
    /\ pc = "idle"
    /\ pc' = "tables"
    /\ op' = "apply"
    /\ result' = Running
    /\ trace' = <<>>
    /\ start' = Snapshot
    /\ UNCHANGED <<migrations, database, locals>>

\* The caller cancels ctx while ApplyMigrations runs.  Between the last
\* baseline statement and the upgrade loop nothing reads ctx, so a cancellation
\* there is the one before the first iteration of the loop.
Cancel ==
    /\ pc \in {"tables", "up"}
    /\ ~Cancelled
    /\ trace' = Append(trace, Event("cancel", 0, NilErr))
    /\ UNCHANGED <<migrations, database, pc, op, locals, result, start>>

\* What db.ExecContext(ctx, v) can answer: context.Canceled once ctx is
\* cancelled, else success or a failure of the statement.
ExecErrs == IF Cancelled THEN {CanceledErr} ELSE {NilErr, ConnErr}

\* The loop over tables going on after a failed statement.
ExecTableIgnoreError ==
    /\ pc = "tables"
    /\ t <= NumTables
    /\ \E err \in ExecErrs :
        /\ trace' = Append(trace, Event("ddl", t, err))
        /\ t' = t + 1
        /\ UNCHANGED <<pc, result, gooseCurrent, migrateCurrent, left, i,
                       currentVersion>>
    /\ UNCHANGED <<migrations, database, op, start>>

\* One iteration of the loop over tables: db.ExecContext(ctx, v).
ExecTable ==
    /\ pc = "tables"
    /\ t <= NumTables
    /\ \E err \in ExecErrs :
        /\ trace' = Append(trace, Event("ddl", t, err))
        /\ IF err = NilErr
           THEN /\ t' = t + 1
                /\ UNCHANGED <<pc, result, gooseCurrent, migrateCurrent, left, i,
                               currentVersion>>
           ELSE Return(err)
    /\ UNCHANGED <<migrations, database, op, start>>

\* goose.GetDBVersion and the test of its error: ErrNoNextVersion is let
\* through with the version it came with.
ApplyGetVersion ==
    /\ pc = "tables"
    /\ t > NumTables
    /\ \E r \in VersionReads(gooseTable) :
        /\ trace' = Append(trace, Event("getver", r.version, r.err))
        /\ IF r.err # NilErr /\ r.err # ErrNoNextVersion
           THEN Return(r.err)
           ELSE /\ gooseCurrent' = r.version
                /\ pc' = "checkold"
                /\ UNCHANGED <<result, t, migrateCurrent, left, i, currentVersion>>
    /\ UNCHANGED <<migrations, database, op, start>>

\* The call of checkOldMigration and the test of its error.  The registry is
\* sorted and linked in place before the legacy row is read.
ApplyCheckOld ==
    /\ pc = "checkold"
    /\ \E scanErr \in ScanErrs(legacy) :
        LET sorted == sortAndConnectMigrations(migrations)
            old == checkOldMigrationTableVersionIfExists(legacy, scanErr)
            r == checkOldMigration(sorted, old)
        IN /\ migrations' = sorted
           /\ trace' = Append(trace, Event("legacy", old.version, scanErr))
           /\ IF r.how # "ret" THEN Halt(r.how)
              ELSE IF r.err # NilErr THEN Return(r.err)
              ELSE /\ migrateCurrent' = r.current
                   /\ left' = r.left
                   /\ pc' = "compare"
                   /\ UNCHANGED <<result, t, gooseCurrent, i, currentVersion>>
    /\ UNCHANGED <<database, op, start>>

\* if gooseCurrent < migrateCurrent: enter the upgrade loop, else return nil.
ApplyCompare ==
    /\ pc = "compare"
    /\ IF ShouldApply(gooseCurrent, migrateCurrent)
       THEN /\ pc' = "up"
            /\ i' = 1
            /\ UNCHANGED <<result, t, gooseCurrent, migrateCurrent, left,
                           currentVersion>>
       ELSE Return(NilErr)
    /\ UNCHANGED <<migrations, database, op, trace, start>>

\* The upgrade loop going on to the next migration after a failed m.Up.
ApplyUpContinue ==
    /\ pc = "up"
    /\ i <= Len(left)
    /\ \E ok \in BOOLEAN :
        LET m == left[i]
        IN /\ trace' = Append(trace, Event("up", m.Version,
                                            IF ok THEN NilErr ELSE MigrationError(m.Version)))
           /\ IF ok
              THEN /\ gooseTable' = TableAfterUp(gooseTable, m.Version)
                   /\ applied' = applied \cup {m.Version}
              ELSE UNCHANGED <<gooseTable, applied>>
           /\ i' = i + 1
           /\ UNCHANGED <<pc, result, t, gooseCurrent, migrateCurrent, left,
                          currentVersion>>
    /\ UNCHANGED <<migrations, legacy, op, start>>

\* One iteration of the upgrade loop: m.Up(db) and the test of its error.
ApplyUp ==
    /\ pc = "up"
    /\ i <= Len(left)
    /\ \E ok \in BOOLEAN :
        LET m == left[i]
        IN /\ trace' = Append(trace, Event("up", m.Version, IF ok THEN NilErr ELSE MigrationError(m.Version)))
           /\ IF ok
              THEN /\ gooseTable' = TableAfterUp(gooseTable, m.Version)
                   /\ applied' = applied \cup {m.Version}
                   /\ i' = i + 1
                   /\ UNCHANGED <<pc, result, t, gooseCurrent, migrateCurrent, left,
                                  currentVersion>>
              ELSE /\ Return(MigrationError(m.Version))
                   /\ UNCHANGED <<gooseTable, applied>>
    /\ UNCHANGED <<migrations, legacy, op, start>>

\* The upgrade loop is exhausted: return nil.
ApplyDone ==
    /\ pc = "up"
    /\ i > Len(left)
    /\ Return(NilErr)
    /\ UNCHANGED <<migrations, database, op, trace, start>>

\* ------------------------------------------------------------------ DownAll
\* The caller invokes DownAll, which sorts and links the registry in place.
CallDownAll ==
    /\ pc = "idle"
    /\ pc' = "dgetver"
    /\ op' = "down"
    /\ result' = Running
    /\ trace' = <<>>
    /\ start' = Snapshot
    /\ migrations' = sortAndConnectMigrations(migrations)
    /\ UNCHANGED <<database, locals>>

\* Top of the loop: goose.GetDBVersion; any error is returned.
DownGetVersion ==
    /\ pc = "dgetver"
    /\ \E r \in VersionReads(gooseTable) :
        /\ trace' = Append(trace, Event("getver", r.version, r.err))
        /\ IF r.err # NilErr
           THEN Return(r.err)
           ELSE /\ currentVersion' = r.version
                /\ pc' = "ddown"
                /\ UNCHANGED <<result, t, gooseCurrent, migrateCurrent, left, i>>
    /\ UNCHANGED <<migrations, database, op, start>>

\* The iteration going round the loop again after a failed current.Down.
DownStepRetry ==
    /\ pc = "ddown"
    /\ LET k == Current(migrations, currentVersion)
       IN IF k = 0 \/ AtBaseline(migrations[k].Version)
          THEN /\ Return(NilErr)
               /\ UNCHANGED <<gooseTable, applied, trace>>
          ELSE \E ok \in BOOLEAN :
                /\ trace' = Append(trace, Event("down", migrations[k].Version,
                                               IF ok THEN NilErr
                                               ELSE MigrationError(migrations[k].Version)))
                /\ IF ok
                   THEN /\ gooseTable' = TableAfterDown(gooseTable, migrations[k].Version)
                        /\ applied' = applied \ {migrations[k].Version}
                   ELSE UNCHANGED <<gooseTable, applied>>
                /\ pc' = "dgetver"
                /\ UNCHANGED <<result, locals>>
    /\ UNCHANGED <<migrations, legacy, op, start>>

\* The iteration with the return on a failed migrations.Current left out:
\* current is nil and reading current.Version panics.
DownStepNoNotFound ==
    /\ pc = "ddown"
    /\ LET k == Current(migrations, currentVersion)
       IN IF k = 0
          THEN /\ Halt("panic")
               /\ UNCHANGED <<gooseTable, applied, trace>>
          ELSE IF AtBaseline(migrations[k].Version)
          THEN /\ Return(NilErr)
               /\ UNCHANGED <<gooseTable, applied, trace>>
          ELSE \E ok \in BOOLEAN :
                /\ trace' = Append(trace, Event("down", migrations[k].Version,
                                               IF ok THEN NilErr
                                               ELSE MigrationError(migrations[k].Version)))
                /\ IF ok
                   THEN /\ gooseTable' = TableAfterDown(gooseTable, migrations[k].Version)
                        /\ applied' = applied \ {migrations[k].Version}
                        /\ pc' = "dgetver"
                        /\ UNCHANGED <<result, locals>>
                   ELSE /\ Return(MigrationError(migrations[k].Version))
                        /\ UNCHANGED <<gooseTable, applied>>
    /\ UNCHANGED <<migrations, legacy, op, start>>

\* The rest of the iteration: migrations.Current, the baseline test and
\* current.Down(db).
DownStep ==
    /\ pc = "ddown"
    /\ LET k == Current(migrations, currentVersion)
       IN IF k = 0 \/ AtBaseline(migrations[k].Version)
          THEN /\ Return(NilErr)
               /\ UNCHANGED <<gooseTable, applied, trace>>
          ELSE \E ok \in BOOLEAN :
                /\ trace' = Append(trace, Event("down", migrations[k].Version,
                                               IF ok THEN NilErr
                                               ELSE MigrationError(migrations[k].Version)))
                /\ IF ok
                   THEN /\ gooseTable' = TableAfterDown(gooseTable, migrations[k].Version)
                        /\ applied' = applied \ {migrations[k].Version}
                        /\ pc' = "dgetver"
                        /\ UNCHANGED <<result, locals>>
                   ELSE /\ Return(MigrationError(migrations[k].Version))
                        /\ UNCHANGED <<gooseTable, applied>>
    /\ UNCHANGED <<migrations, legacy, op, start>>

Next ==
    \/ CallApply
    \/ Cancel
    \/ ExecTable
    \/ ApplyGetVersion
    \/ ApplyCheckOld
    \/ ApplyCompare
    \/ ApplyUp
    \/ ApplyDone
    \/ CallDownAll
    \/ DownGetVersion
    \/ DownStep

Spec == Init /\ [][Next]_vars

\* DownAll alone, called any number of times.  A DownAll that has been called
\* keeps running: its steps are weakly fair; the caller need not call again.
NextDown ==
    \/ CallDownAll
    \/ DownGetVersion
    \/ DownStep

LiveDownSpec ==
    Init /\ [][NextDown]_vars /\ WF_vars(DownGetVersion) /\ WF_vars(DownStep)

\* ================================================================ properties
\* Observations on a run, read from trace and start.
Calls(ev) == SelectSeq(trace, LAMBDA e : e.ev = ev)
VersionsOf(events) == [k \in 1..Len(events) |-> events[k].v]
UpVersions == VersionsOf(Calls("up"))
DownVersions == VersionsOf(Calls("down"))
RegistryVersions(ms) == [k \in 1..Len(ms) |-> ms[k].Version]
VersionsAbove(ms, v) == RegistryVersions(SelectSeq(ms, LAMBDA m : m.Version > v))
StrictlyAscending(s) == \A k \in 1..(Len(s) - 1) : s[k] < s[k + 1]
IsPrefix(s, u) == Len(s) <= Len(u) /\ s = SubSeq(u, 1, Len(s))

\* The run is over: it returned, or the process ended in it.
Finished == op # "none" /\ pc \in {"idle", "exited"}
\* The legacy row was not misread by a failed query.
LegacyReadOk == \A k \in 1..Len(trace) : trace[k].ev = "legacy" => trace[k].err \in {NilErr, ErrNoRows}

ModernBefore == GetDBVersion(start.table).version
LegacyBefore == IF start.legacy.present THEN start.legacy.version ELSE -1
LegacyDirty == start.legacy.present /\ start.legacy.dirty
MaxOf(a, b) == IF a >= b THEN a ELSE b
HighestVersion(ms) == CHOOSE v \in SeqToSet(RegistryVersions(ms)) :
                          \A w \in SeqToSet(RegistryVersions(ms)) : w <= v

\* C1: on a database with no legacy table and no modern record, a run of
\* ApplyMigrations in which no database operation fails returns success having
\* invoked Up for every migration of the Registry exactly once, in ascending
\* version order.
C1_FreshApplyRunsWholeRegistry ==
    (op = "apply" /\ Finished /\ NoFailure
        /\ ~start.legacy.present /\ start.table = <<>>)
    => /\ result.status = "ok"
       /\ UpVersions = RegistryVersions(SortByVersion(start.migrations))

\* C2: when ApplyMigrations returns success from a non-dirty state, every
\* Registry migration whose version exceeds the version recorded before the
\* call (legacy or modern, whichever is higher) has had Up invoked.
C2_SuccessLeavesNothingOutstanding ==
    (op = "apply" /\ pc = "idle" /\ result.status = "ok" /\ ~LegacyDirty)
    => \A k \in 1..Len(migrations) :
          migrations[k].Version > MaxOf(ModernBefore, LegacyBefore)
          => migrations[k].Version \in SeqToSet(UpVersions)

\* C3: for a non-dirty legacy version v > 0, the outstanding sequence that
\* checkOldMigration returns is exactly the migrations with version > v, in
\* ascending order.
C3_OutstandingIsVersionsAboveLegacy ==
    (op = "apply" /\ pc = "compare" /\ migrateCurrent > 0)
    => RegistryVersions(left) = VersionsAbove(migrations, migrateCurrent)

\* C4: ApplyMigrations invokes Up only when the modern version is strictly
\* behind the legacy version; when it is equal or ahead (non-dirty row, no
\* failing database operation) the run invokes no Up and returns success.
C4_AppliesOnlyWhenModernBehind ==
    op = "apply"
    => /\ UpVersions # <<>> => ModernBefore < LegacyBefore
       /\ (Finished /\ NoFailure /\ ~LegacyDirty /\ ModernBefore >= LegacyBefore)
          => (UpVersions = <<>> /\ result.status = "ok")

\* C5: a failed Up is the last database operation of its ApplyMigrations run,
\* which returns the error of that migration; the Ups invoked are a prefix, in
\* ascending order, of the outstanding migrations, so the ones before the
\* failure succeeded and the ones after it are never invoked.
C5_FirstFailureStopsApply ==
    op = "apply"
    => /\ \A k \in 1..Len(trace) :
            (trace[k].ev = "up" /\ trace[k].err # NilErr)
            => /\ k = Len(trace)
               /\ pc = "idle"
               /\ result = Returned(MigrationError(trace[k].v))
       /\ \A k \in 1..(Len(trace) - 1) : trace[k].ev = "up" => trace[k].err = NilErr
       /\ StrictlyAscending(UpVersions)
       /\ UpVersions # <<>>
          => IsPrefix(UpVersions,
                      RegistryVersions(SubSeq(migrations, LegacyBefore + 1, Len(migrations))))

\* C5 witness: three migrations were outstanding, the first succeeded, the
\* second failed and the run returned.
C5_Witness ==
    /\ op = "apply" /\ pc = "idle"
    /\ Len(migrations) - LegacyBefore >= 3
    /\ Len(Calls("up")) = 2
    /\ Calls("up")[1].err = NilErr
    /\ Calls("up")[2].err # NilErr
    /\ result.status = "err"

\* C6: when the legacy row reports dirty = true, ApplyMigrations invokes no
\* Up and never returns success.
C6_DirtyLegacyHaltsApply ==
    (op = "apply" /\ LegacyDirty /\ LegacyReadOk)
    => (UpVersions = <<>> /\ result.status # "ok")

\* C6 witness: the dirty row was read and log.Fatal ended the process.
C6_Witness ==
    /\ op = "apply" /\ LegacyDirty /\ LegacyReadOk
    /\ start.legacy.version > 0
    /\ ModernBefore < start.legacy.version
    /\ Len(migrations) > start.legacy.version
    /\ pc = "exited" /\ result.status = "fatal"

\* C7: when the legacy row reports dirty = true, DownAll invokes no Down.
C7_DirtyLegacyHaltsDownAll ==
    (op = "down" /\ LegacyDirty) => DownVersions = <<>>

\* C8: from a database on which exactly the Registry's migrations are
\* applied, a DownAll that returns success leaves no Registry migration
\* applied and the recorded version at the baseline 0.
C8_DownAllRestoresBaseline ==
    (op = "down" /\ pc = "idle" /\ result.status = "ok"
        /\ Len(migrations) > 0
        /\ SeqToSet(start.table) \ {0} = SeqToSet(RegistryVersions(migrations)))
    => /\ \A k \in 1..Len(migrations) : migrations[k].Version \notin applied
       /\ GetDBVersion(gooseTable).version = 0

\* C9: if the modern recorded version equals the Registry's highest version
\* and the legacy row is not dirty, ApplyMigrations invokes no Up and leaves
\* the modern and the legacy version state as they were.
C9_NoOpApplyAtHighest ==
    (op = "apply" /\ Len(start.migrations) > 0 /\ ~LegacyDirty
        /\ ModernBefore = HighestVersion(start.migrations))
    => /\ UpVersions = <<>>
       /\ gooseTable = start.table
       /\ legacy = start.legacy

\* C9 witness: such a run got past the comparison with a legacy version
\* above 0 and returned success.
C9_Witness ==
    /\ op = "apply" /\ pc = "idle" /\ result.status = "ok"
    /\ Len(start.migrations) >= 3 /\ ~LegacyDirty
    /\ ModernBefore = HighestVersion(start.migrations)
    /\ LegacyBefore > 0
    /\ \E k \in 1..Len(trace) : trace[k].ev = "legacy" /\ trace[k].err = NilErr

\* The registry has been through sortAndConnectMigrations in this run.
SortedInRun == op = "down" \/ (op = "apply" /\ Calls("legacy") # <<>>)

Linked(ms) ==
    /\ Len(ms) > 0 => ms[1].Previous = -1
    /\ \A k \in 1..(Len(ms) - 1) :
        /\ ms[k].Version < ms[k + 1].Version
        /\ ms[k].Next = ms[k + 1].Version
        /\ ms[k + 1].Previous = ms[k].Version

\* C10: sortAndConnectMigrations leaves the same records ascending by version
\* with record[1].previous = -1, record[i].next = record[i+1].version and
\* record[i+1].previous = record[i].version.
C10_SortedAndLinked ==
    SortedInRun
    => /\ Linked(migrations)
       /\ Len(migrations) = Len(start.migrations)
       /\ SeqToSet(RegistryVersions(migrations))
            = SeqToSet(RegistryVersions(start.migrations))

\* C10 witness: a registry of at least three migrations registered out of
\* order has been sorted and linked.
C10_Witness ==
    /\ SortedInRun
    /\ Len(start.migrations) >= 3
    /\ start.migrations[1].Version > start.migrations[2].Version
    /\ start.migrations[1].Next = -1

\* C11: every DownAll run eventually returns: each iteration of its loop
\* either returns or lowers the recorded version, which is bounded below.
C11_DownAllTerminates ==
    (op = "down" /\ pc \in {"dgetver", "ddown"}) ~> (op = "down" /\ pc = "idle")

\* C11 witness: a DownAll run returned after at least two reversals.
C11_Witness ==
    /\ op = "down" /\ pc = "idle" /\ result.status = "ok"
    /\ Len(DownVersions) >= 2

\* C12: a failed Down is the last database operation of its DownAll run,
\* which returns that error; the recorded version is still the one read at the
\* top of that iteration, the one the last successful reversal produced.
C12_FailedDownStopsDownAll ==
    op = "down"
    => \A k \in 1..Len(trace) :
          (trace[k].ev = "down" /\ trace[k].err # NilErr)
          => /\ k = Len(trace)
             /\ pc = "idle"
             /\ result = Returned(trace[k].err)
             /\ k > 1 /\ trace[k - 1].ev = "getver"
             /\ GetDBVersion(gooseTable).version = trace[k - 1].v

\* C12 witness: one reversal succeeded, the next failed and DownAll returned.
C12_Witness ==
    /\ op = "down" /\ pc = "idle" /\ result.status = "err"
    /\ Len(Calls("down")) = 2
    /\ Calls("down")[1].err = NilErr
    /\ Calls("down")[2].err # NilErr

\* Number of Up calls among the first k operations of the run.
UpsBefore(k) == Len(SelectSeq(SubSeq(trace, 1, k), LAMBDA e : e.ev = "up"))

\* C13: if ctx is cancelled after one migration's Up and before the next
\* outstanding one, no further Up is invoked and ApplyMigrations returns the
\* cancellation error.
C13_CancelStopsBeforeNextMigration ==
    op = "apply"
    => \A k \in 2..Len(trace) :
          (/\ trace[k].ev = "cancel"
           /\ trace[k - 1].ev = "up"
           /\ UpsBefore(k) < Len(migrations) - LegacyBefore)
          => /\ \A j \in (k + 1)..Len(trace) : trace[j].ev # "up"
             /\ pc = "idle" => result = Returned(CanceledErr)

\* The database operations of the run, without the caller's cancellation.
Ops == SelectSeq(trace, LAMBDA e : e.ev # "cancel")

\* C14: in an ApplyMigrations run every version read and every Up comes after
\* the NumTables baseline statements, all issued and successful; a failed
\* baseline statement is the last database operation of the run, which
\* returns its error.
C14_BootstrapBeforeVersionState ==
    op = "apply"
    => /\ \A k \in 1..Len(Ops) :
            Ops[k].ev \in {"getver", "legacy", "up"}
            => /\ k > NumTables
               /\ \A j \in 1..NumTables : Ops[j] = Event("ddl", j, NilErr)
       /\ \A k \in 1..Len(Ops) :
            (Ops[k].ev = "ddl" /\ Ops[k].err # NilErr)
            => /\ k = Len(Ops)
               /\ pc = "idle"
               /\ result = Returned(Ops[k].err)

\* C14 witness: a run went past the bootstrap and read the version state.
C14_Witness ==
    /\ op = "apply" /\ pc = "idle" /\ result.status = "ok"
    /\ Len(Calls("ddl")) = NumTables
    /\ Calls("getver") # <<>> /\ Calls("legacy") # <<>> /\ Calls("up") # <<>>

\* C15: ApplyMigrations never invokes Up for a migration whose version is at
\* or below the legacy version or the modern version recorded before the call.
C15_NeverDoubleApplies ==
    op = "apply"
    => \A k \in 1..Len(UpVersions) :
          UpVersions[k] > LegacyBefore /\ UpVersions[k] > ModernBefore

\* C15 witness: a run applied at least two migrations on top of recorded
\* legacy and modern versions.
C15_Witness ==
    /\ op = "apply" /\ pc = "idle" /\ result.status = "ok"
    /\ Len(UpVersions) >= 2
    /\ ModernBefore >= 1
    /\ LegacyBefore > ModernBefore

\* C16: if the read of the legacy row fails (not for a missing table or row),
\* ApplyMigrations returns that error.
C16_LegacyReadErrorAborts ==
    (op = "apply" /\ Finished
        /\ \E k \in 1..Len(trace) : trace[k].ev = "legacy" /\ trace[k].err = ConnErr)
    => result = Returned(ConnErr)

\* goose.GetDBVersion answered "no next version" in this run.
NoNextVersionSeen ==
    \E k \in 1..Len(trace) : trace[k].ev = "getver" /\ trace[k].err = ErrNoNextVersion

\* C17: "no next version" is not an error of either entry point:
\* ApplyMigrations goes on past it, and DownAll returns success having invoked
\* no Down.
C17_NoNextVersionDowngraded ==
    (Finished /\ NoNextVersionSeen)
    => /\ result.err # ErrNoNextVersion
       /\ op = "apply" => Calls("legacy") # <<>>
       /\ op = "down" => (result.status = "ok" /\ DownVersions = <<>>)

\* C18: DownAll invokes Down only for the migration that is the recorded
\* version just read, never for a version at or below 1, and in strictly
\* descending version order; when it returns success the recorded version is
\* at most 1 or matches no migration of the Registry.
C18_DownAllStopsAboveOne ==
    op = "down"
    => /\ \A k \in 1..Len(trace) :
            trace[k].ev = "down"
            => /\ trace[k].v > 1
               /\ k > 1
               /\ trace[k - 1] = Event("getver", trace[k].v, NilErr)
       /\ \A k \in 1..(Len(DownVersions) - 1) : DownVersions[k] > DownVersions[k + 1]
       /\ (pc = "idle" /\ result.status = "ok")
          => \/ GetDBVersion(gooseTable).version <= 1
             \/ Current(migrations, GetDBVersion(gooseTable).version) = 0

\* C18 witness: DownAll reversed two migrations and stopped with success at
\* the migration of version 1.
C18_Witness ==
    /\ op = "down" /\ pc = "idle" /\ result.status = "ok"
    /\ Len(DownVersions) >= 2
    /\ GetDBVersion(gooseTable).version = 1
    /\ Current(migrations, 1) # 0

C20_ApplyAlwaysReturns ==
    (op = "apply" /\ Finished /\ ~LegacyDirty) => result.status \in {"ok", "err"}

====
